---------------------------- MODULE Spec2Model ----------------------------
(***************************************************************************)
(* A model of code_whisperer_with_system.py: the keyword table and the     *)
(* category classifier, the entity extractor, the interaction store, the   *)
(* key-point store and the per-turn workflow with its word budget.         *)
(*                                                                         *)
(* Python strings are TLA+ strings.  The two SQLite tables are modelled    *)
(* from the statements the code runs against them.                         *)
(***************************************************************************)
EXTENDS Integers, Sequences, FiniteSets, TLC

VARIABLES
    category_keywords,  \* the process-wide keyword table (an ordered dict)
    interactions,       \* table interactions: rows in insertion (rowid) order
    key_points,         \* table key_points: a set of rows
    now,                \* the database clock that stamps new interaction rows
    call,               \* the last operation: its name, arguments, result
    query,              \* the chunked query being entered for the classifier
    nOps,               \* operations or turns run so far
    pc,                 \* the position of the workflow script
    wf                  \* the workflow's local variables

vars == <<category_keywords, interactions, key_points, now, call, query, nOps, pc, wf>>

-----------------------------------------------------------------------------
(* Bounds of the model.                                                    *)

MaxOps == 3          \* store operations in one behaviour
MaxClock == 2        \* seconds the database clock may advance
MaxQueryLen == 5     \* chunk items in one query
MaxCalls == 2        \* classifier calls in one process
MaxTurns == 2        \* turns (runs of the workflow script) in one behaviour

Sessions == {"s1", "s2"}

-----------------------------------------------------------------------------
(* The keyword table.                                                      *)

\* category_keywords as the module defines it: an ordered dict, modelled as
\* the sequence of its items.
InitialCategoryKeywords == <<
    [category |-> "requirements",
     keywords |-> <<
            "requirements", "specifications", "needs", "criteria",
            "goals", "objectives", "user story">>],
    [category |-> "architecture and design",
     keywords |-> <<
            "architecture", "design", "structure", "blueprint",
            "framework", "model", "diagram", "pattern">>],
    [category |-> "implementation",
     keywords |-> <<
            "implementation", "coding", "development", "function",
            "method", "procedure", "class", "module", "algorithm">>],
    [category |-> "testing",
     keywords |-> <<
            "testing", "tests", "validation", "verification",
            "unit test", "integration test", "test case", "test plan",
            "QA">>],
    [category |-> "external APIs",
     keywords |-> <<
            "API", "external service", "integration",
            "third-party service", "REST", "SOAP", "webhook",
            "endpoint", "API key">>],
    [category |-> "deployment",
     keywords |-> <<
            "deployment", "release", "environment", "production",
            "staging", "CI/CD", "pipeline", "rollout", "rollback">>],
    [category |-> "documentation",
     keywords |-> <<
            "documentation", "doc", "README", "guide", "manual",
            "comments", "annotations", "spec">>],
    [category |-> "project management",
     keywords |-> <<
            "project management", "timeline", "milestones", "tasks",
            "issues", "tickets", "backlog", "sprint", "agile",
            "kanban", "scrum">>]>>

-----------------------------------------------------------------------------
(* Python string operations.                                               *)

UpperChars == "ABCDEFGHIJKLMNOPQRSTUVWXYZ"
LowerChars == "abcdefghijklmnopqrstuvwxyz"

Char(s, i) == SubSeq(s, i, i)

\* str.lower() of one character
LowerMap ==
    [ch \in {Char(UpperChars, i) : i \in 1..Len(UpperChars)} |->
        Char(LowerChars, CHOOSE i \in 1..Len(UpperChars) : Char(UpperChars, i) = ch)]

LowerChar(ch) == IF ch \in DOMAIN LowerMap THEN LowerMap[ch] ELSE ch

RECURSIVE LowerFrom(_, _)
\* The characters of s from the i-th on, each lowered.
LowerFrom(s, i) ==
    IF i > Len(s) THEN "" ELSE LowerChar(Char(s, i)) \o LowerFrom(s, i + 1)

\* The lowered form of every keyword of the initial table, computed once.
LoweredKeywords ==
    [s \in UNION {{InitialCategoryKeywords[i].keywords[k] :
                     k \in 1..Len(InitialCategoryKeywords[i].keywords)} :
                  i \in 1..Len(InitialCategoryKeywords)} |-> LowerFrom(s, 1)]

\* str.lower()
Lower(s) == IF s \in DOMAIN LoweredKeywords THEN LoweredKeywords[s] ELSE LowerFrom(s, 1)

\* a in b, for strings
IsSubstring(a, b) ==
    \E i \in 0..(Len(b) - Len(a)) : SubSeq(b, i + 1, i + Len(a)) = a

RECURSIVE Join(_, _)
\* sep.join(parts), parts a sequence of strings
Join(sep, parts) ==
    IF parts = <<>> THEN ""
    ELSE IF Len(parts) = 1 THEN parts[1]
    ELSE parts[1] \o sep \o Join(sep, Tail(parts))

IsSpace(ch) == ch \in {" ", "\n"}

\* len(s.split()): the number of maximal runs of non-whitespace characters
WordCount(s) ==
    Cardinality({i \in 1..Len(s) :
        /\ ~IsSpace(Char(s, i))
        /\ (i = 1 \/ IsSpace(Char(s, i - 1)))})

RECURSIVE LStrip(_)
LStrip(s) == IF s # "" /\ IsSpace(Char(s, 1)) THEN LStrip(SubSeq(s, 2, Len(s))) ELSE s

RECURSIVE RStrip(_)
RStrip(s) ==
    IF s # "" /\ IsSpace(Char(s, Len(s))) THEN RStrip(SubSeq(s, 1, Len(s) - 1)) ELSE s

\* str.strip()
Strip(s) == RStrip(LStrip(s))

\* s.startswith(prefix)
StartsWith(s, prefix) == Len(prefix) <= Len(s) /\ SubSeq(s, 1, Len(prefix)) = prefix

RECURSIVE SplitLines(_)
\* s.split('\n')
SplitLines(s) ==
    IF \E i \in 1..Len(s) : Char(s, i) = "\n"
    THEN LET i == CHOOSE j \in 1..Len(s) :
                     Char(s, j) = "\n" /\ \A m \in 1..(j - 1) : Char(s, m) # "\n"
         IN  <<SubSeq(s, 1, i - 1)>> \o SplitLines(SubSeq(s, i + 1, Len(s)))
    ELSE <<s>>

RECURSIVE Repeat(_, _)
\* s * n
Repeat(s, n) ==
    IF n = 0 THEN ""
    ELSE IF n % 2 = 0 THEN LET half == Repeat(s, n \div 2) IN half \o half
    ELSE s \o Repeat(s, n - 1)

\* a in xs, for a sequence xs
InSeq(a, xs) == \E i \in 1..Len(xs) : xs[i] = a

-----------------------------------------------------------------------------
(* The key-point store.                                                    *)

KPCategories == {"testing", "deployment"}
Points == {"", "a", "b"}

\* SELECT summary FROM key_points WHERE session_id = ? AND category = ?;
\* fetchone(); result[0] if result else ""
SelectSummary(table, session_id, category) ==
    LET result == {r \in table : r.session_id = session_id /\ r.category = category}
    IN  IF result # {} THEN (CHOOSE r \in result : TRUE).summary ELSE ""

get_key_points(session_id, category) == SelectSummary(key_points, session_id, category)

\* A plain INSERT, without the ON CONFLICT clause.
InsertOnly(table, session_id, category, summary) ==
    table \cup {[session_id |-> session_id, category |-> category, summary |-> summary]}

\* INSERT ... ON CONFLICT(session_id, category) DO UPDATE SET summary=excluded.summary
Upsert(table, session_id, category, summary) ==
    IF \E r \in table : r.session_id = session_id /\ r.category = category
    THEN {IF r.session_id = session_id /\ r.category = category
          THEN [r EXCEPT !.summary = summary] ELSE r : r \in table}
    ELSE table \cup {[session_id |-> session_id, category |-> category, summary |-> summary]}

\* The new points put in front of the summary instead of behind it.
PrependedSummary(current_summary, new_points) ==
    IF current_summary # "" THEN new_points \o "\n" \o current_summary ELSE new_points

\* current_summary + "\n" + new_points if current_summary else new_points
UpdatedSummary(current_summary, new_points) ==
    IF current_summary # "" THEN current_summary \o "\n" \o new_points ELSE new_points

\* The table after update_key_points(session_id, category, new_points).
KeyPointsAfterUpdate(table, session_id, category, new_points) ==
    Upsert(table, session_id, category,
           UpdatedSummary(SelectSummary(table, session_id, category), new_points))

store_key_points(session_id, category, summary) ==
    /\ nOps < MaxOps
    /\ key_points' = Upsert(key_points, session_id, category, summary)
    /\ call' = [op |-> "store_key_points", session_id |-> session_id,
                category |-> category, summary |-> summary,
                prior |-> get_key_points(session_id, category)]
    /\ nOps' = nOps + 1
    /\ UNCHANGED <<category_keywords, interactions, now, query, pc, wf>>

update_key_points(session_id, category, new_points) ==
    /\ nOps < MaxOps
    /\ key_points' = KeyPointsAfterUpdate(key_points, session_id, category, new_points)
    /\ call' = [op |-> "update_key_points", session_id |-> session_id,
                category |-> category, new_points |-> new_points,
                prior |-> get_key_points(session_id, category)]
    /\ nOps' = nOps + 1
    /\ UNCHANGED <<category_keywords, interactions, now, query, pc, wf>>

-----------------------------------------------------------------------------
(* The interaction store.                                                  *)

UserInputs == {"q1", "q2"}
ModelResponses == {"r1"}
Limits == 0..3

Min(a, b) == IF a <= b THEN a ELSE b

\* The row INSERT INTO interactions (session_id, user_input, model_response)
\* adds: the timestamp column takes the database's default, the current time.
InteractionsAfterStore(session_id, user_input, model_response) ==
    Append(interactions, [session_id |-> session_id, user_input |-> user_input,
                          model_response |-> model_response, timestamp |-> now])

\* The rowids of a session's rows.
SessionRows(session_id) ==
    {i \in 1..Len(interactions) : interactions[i].session_id = session_id}

\* ORDER BY timestamp DESC: every order of the session's rows in which no row
\* precedes one with a later timestamp.  Rows with equal timestamps may come
\* in either order.
TimestampOrders(session_id) ==
    LET rows == SessionRows(session_id)
        n == Cardinality(rows)
    IN  {ord \in [1..n -> rows] :
            /\ \A j, k \in 1..n : j # k => ord[j] # ord[k]
            /\ \A j, k \in 1..n :
                 j < k => interactions[ord[j]].timestamp >= interactions[ord[k]].timestamp}

\* SELECT user_input, model_response ... LIMIT ?; fetchall(): the results the
\* query may return.
RetrieveResults(session_id, limit) ==
    {[j \in 1..Min(limit, Len(ord)) |->
         <<interactions[ord[j]].user_input, interactions[ord[j]].model_response>>] :
     ord \in TimestampOrders(session_id)}

store_interaction(session_id, user_input, model_response) ==
    /\ nOps < MaxOps
    /\ interactions' = InteractionsAfterStore(session_id, user_input, model_response)
    /\ call' = [op |-> "store_interaction", session_id |-> session_id]
    /\ nOps' = nOps + 1
    /\ UNCHANGED <<category_keywords, key_points, now, query, pc, wf>>

retrieve_context(session_id, limit) ==
    /\ \E result \in RetrieveResults(session_id, limit) :
          call' = [op |-> "retrieve_context", session_id |-> session_id,
                   limit |-> limit, result |-> result]
    /\ UNCHANGED <<category_keywords, interactions, key_points, now, query, nOps, pc, wf>>

\* A second passes on the database clock.
Tick ==
    /\ now < MaxClock
    /\ now' = now + 1
    /\ UNCHANGED <<category_keywords, interactions, key_points, call, query, nOps, pc, wf>>

-----------------------------------------------------------------------------
(* Operations on the keyword table.                                        *)

Categories(table) == {table[i].category : i \in 1..Len(table)}

CategoryIndex(table, category) ==
    CHOOSE i \in 1..Len(table) : table[i].category = category

\* table.get(category, []): the keywords of a category, none when absent
Keywords(table, category) ==
    IF category \in Categories(table)
    THEN table[CategoryIndex(table, category)].keywords
    ELSE <<>>

-----------------------------------------------------------------------------
(* The entity extractor.                                                   *)
(*                                                                         *)
(* ne_chunk(pos_tag(word_tokenize(text))) is a sequence of items: a Tree   *)
(* holding the tokens of one named-entity chunk, or one (token, pos) pair. *)

Word(token) == [tree |-> FALSE, leaves |-> <<token>>]
Entity(leaves) == [tree |-> TRUE, leaves |-> leaves]

RECURSIVE ChunkLoop(_, _, _, _)
\* The for loop of get_continuous_chunks, from item i on.
ChunkLoop(chunked, i, current_chunk, continuous_chunk) ==
    IF i > Len(chunked) THEN continuous_chunk
    ELSE IF chunked[i].tree
    THEN ChunkLoop(chunked, i + 1,
                   Append(current_chunk, Join(" ", chunked[i].leaves)),
                   continuous_chunk)
    ELSE IF current_chunk # <<>>
    THEN LET named_entity == Join(" ", current_chunk)
         IN  IF ~InSeq(named_entity, continuous_chunk)
             THEN ChunkLoop(chunked, i + 1, <<>>, Append(continuous_chunk, named_entity))
             ELSE ChunkLoop(chunked, i + 1, current_chunk, continuous_chunk)
    ELSE ChunkLoop(chunked, i + 1, current_chunk, continuous_chunk)

get_continuous_chunks(chunked) == ChunkLoop(chunked, 1, <<>>, <<>>)

-----------------------------------------------------------------------------
(* The category classifier.                                                *)

RECURSIVE Leaves(_)
\* The tokens of a chunked text, in order.
Leaves(chunked) ==
    IF chunked = <<>> THEN <<>> ELSE Head(chunked).leaves \o Leaves(Tail(chunked))

\* The text of a query: its tokens separated by spaces.
Text(chunked) == Join(" ", Leaves(chunked))

\* Counter(nltk.word_tokenize(query.lower())), as the set of its keys
TokenCounts(chunked) ==
    LET tokens == Leaves(chunked)
    IN  {Lower(tokens[i]) : i \in 1..Len(tokens)}

\* The first loop: the categories with a keyword among the tokens.
KeywordCategories(table, token_counts) ==
    {table[i].category : i \in
        {j \in 1..Len(table) :
            \E k \in 1..Len(table[j].keywords) :
                Lower(table[j].keywords[k]) \in token_counts}}

\* The keyword compared with the lowered entity without being lowered itself.
KeywordInLoweredEntity(keywords, entity) ==
    LET lowered == Lower(entity)
    IN  \E k \in 1..Len(keywords) : IsSubstring(keywords[k], lowered)

\* any(keyword.lower() in entity.lower() for keyword in keywords)
AnyKeywordInEntity(keywords, entity) ==
    LET lowered == Lower(entity)
    IN  \E k \in 1..Len(keywords) : IsSubstring(Lower(keywords[k]), lowered)

\* The entity appended to the category the loop variable was left at: the last.
AddToLastCategory(table, entity) ==
    [table EXCEPT ![Len(table)].keywords = Append(@, entity)]

\* category_keywords.setdefault('dynamic', []).append(entity)
AddDynamic(table, entity) ==
    IF "dynamic" \in Categories(table)
    THEN [table EXCEPT ![CategoryIndex(table, "dynamic")].keywords = Append(@, entity)]
    ELSE Append(table, [category |-> "dynamic", keywords |-> <<entity>>])

\* The categories, by their place in the table, with a keyword inside the entity.
MatchingCategories(table, entity) ==
    {i \in 1..Len(table) : AnyKeywordInEntity(table[i].keywords, entity)}

RECURSIVE EntityLoop(_, _, _, _)
\* The second loop, from entity i on: the table and the relevant categories
\* when it ends.
EntityLoop(entities, i, table, relevant_categories) ==
    IF i > Len(entities)
    THEN [table |-> table, relevant_categories |-> relevant_categories]
    ELSE LET entity == entities[i]
             found == MatchingCategories(table, entity)
         IN  IF found # {}
             THEN LET first == CHOOSE c \in found : \A d \in found : c <= d
                  IN  EntityLoop(entities, i + 1, table,
                                 relevant_categories \cup {table[first].category})
             ELSE EntityLoop(entities, i + 1, AddDynamic(table, entity),
                             relevant_categories \cup {"dynamic"})

\* determine_relevant_categories(query) on the table given: the table it
\* leaves and the set it returns.
DetermineRelevantCategories(table, chunked) ==
    EntityLoop(get_continuous_chunks(chunked), 1, table,
               KeywordCategories(table, TokenCounts(chunked)))

\* Items of queries that name entities: one the table has no keyword for,
\* one it has.
EntityQueryItems == {Word("test"), Entity(<<"Vulkan">>), Entity(<<"REST", "API">>)}

\* Items of queries that name keywords: a multi-word keyword's words, a
\* keyword in another case.
KeywordQueryItems == {Word("unit"), Word("test"), Word("Tests"), Entity(<<"REST", "API">>)}

\* The next item of the query is entered.
EnterItem(item) ==
    /\ nOps < MaxCalls
    /\ Len(query) < MaxQueryLen
    /\ query' = Append(query, item)
    /\ call' = [op |-> "none"]
    /\ UNCHANGED <<category_keywords, interactions, key_points, now, nOps, pc, wf>>

determine_relevant_categories ==
    /\ nOps < MaxCalls
    /\ LET out == DetermineRelevantCategories(category_keywords, query)
       IN  /\ category_keywords' = out.table
           /\ call' = [op |-> "determine_relevant_categories", query |-> query,
                       table |-> category_keywords,
                       entities |-> get_continuous_chunks(query),
                       result |-> out.relevant_categories]
    /\ query' = <<>>
    /\ nOps' = nOps + 1
    /\ UNCHANGED <<interactions, key_points, now, pc, wf>>

-----------------------------------------------------------------------------
(* The workflow: one run of the script is one turn.                        *)

system_prompt ==
    "\n" \o
    "You are an advanced AI assistant specialized in software development. Your role is to assist users with various aspects of software engineering, including but not limited to:\n" \o
    "- Requirements gathering and analysis\n" \o
    "- Software architecture and design\n" \o
    "- Implementation and coding in multiple programming languages\n" \o
    "- Testing and quality assurance\n" \o
    "- Integration with external APIs and services\n" \o
    "- Deployment and CI/CD practices\n" \o
    "- Documentation and technical writing\n" \o
    "- Project management and agile methodologies\n" \o
    "\n" \o
    "When providing responses, ensure they are detailed, technically accurate, and relevant to the user's query. Use appropriate software development terminology and examples where necessary. Stay focused on the context of software engineering and aim to provide practical and actionable advice.\n" \o
    "\n" \o
    "If the user introduces new topics or specific technologies, incorporate those into the conversation and adapt your responses accordingly. Your goal is to be a comprehensive and knowledgeable resource for software development-related queries.\n"

TokenLimit == 8192
DefaultLimit == 5

\* "\n".join([f"User: {ui}\nBot: {mr}" for ui, mr in context])
Transcript(context) ==
    Join("\n", [j \in 1..Len(context) |->
                   "User: " \o context[j][1] \o "\nBot: " \o context[j][2]])

RECURSIVE PointsOf(_, _)
\* What the loop over the lines of the extraction's answer adds to a category.
PointsOf(lines, category) ==
    IF lines = <<>> THEN ""
    ELSE (IF StartsWith(Head(lines), category \o ":")
          THEN Strip(SubSeq(Head(lines), Len(category \o ":") + 1, Len(Head(lines)))) \o "\n"
          ELSE "")
         \o PointsOf(Tail(lines), category)

\* extract_key_points_by_category, given the completion the model returned:
\* the items of the dict it returns, in the order of the keyword table.
ExtractKeyPointsByCategory(table, completion) ==
    [i \in 1..Len(table) |->
        [category |-> table[i].category,
         points |-> PointsOf(SplitLines(Strip(completion)), table[i].category)]]

RECURSIVE UpdateEach(_, _, _, _)
\* for category, points in new_key_points.items(): update_key_points(...)
UpdateEach(table, session_id, new_key_points, i) ==
    IF i > Len(new_key_points) THEN table
    ELSE UpdateEach(KeyPointsAfterUpdate(table, session_id, new_key_points[i].category,
                                         new_key_points[i].points),
                    session_id, new_key_points, i + 1)

\* The orders in which the relevant categories may be iterated: a set's order
\* is any, the order of category_keywords.keys() is the table's.
IterationOrders(table, relevant_categories) ==
    IF relevant_categories = {}
    THEN {[i \in 1..Len(table) |-> table[i].category]}
    ELSE LET n == Cardinality(relevant_categories)
         IN  {ord \in [1..n -> relevant_categories] :
                 \A j, k \in 1..n : j # k => ord[j] # ord[k]}

\* "\n".join([get_key_points(session_id, category) for category in
\* relevant_categories if get_key_points(session_id, category)])
KeyPointsText(table, session_id, order) ==
    LET NonEmpty(summary) == summary # ""
    IN  Join("\n", SelectSeq([i \in 1..Len(order) |->
                                 SelectSummary(table, session_id, order[i])], NonEmpty))

CombinedContext(key_points_text, context) ==
    system_prompt \o "\n\n" \o key_points_text \o "\n\n" \o Transcript(context)

\* The check with the user input left out of the count.
ContextAloneWithinBudget(combined_words, input_words) ==
    combined_words <= TokenLimit

\* The check with < in place of <=.
StrictlyWithinBudget(combined_words, input_words) ==
    combined_words + input_words < TokenLimit

\* len(combined_context.split()) + len(user_input.split()) <= 8192, given the
\* two lengths
WithinBudget(combined_words, input_words) ==
    combined_words + input_words <= TokenLimit

\* The summary earlier turns have accumulated for one category of session
\* s1: with the system prompt it leaves room for two more words.
LongSummary == Repeat("w ", TokenLimit - WordCount(system_prompt) - 2)

\* Inputs of a turn: one with no keyword and no entity, one with an entity
\* and a keyword, one with the keyword of another category.
TurnInputs ==
    {<<Word("hello"), Word("there")>>,
     <<Entity(<<"Vulkan">>), Word("runs"), Word("more"), Word("tests")>>,
     <<Word("deployment")>>}

\* Completions the model may return to the extraction prompt and to the
\* turn's prompt.
ExtractionCompletions == {"", " testing: a\nnote\ndeployment:  b \n"}
ResponseCompletions == {" ok\n"}

NoTurn ==
    [session_id |-> "none", user_input |-> <<>>, context |-> <<>>,
     relevant_categories |-> {}, checked |-> FALSE, combined_words |-> 0,
     input_words |-> 0, response |-> "", generate_calls |-> 0, store_calls |-> 0,
     interactions_before |-> <<>>, outcome |-> "none"]

\* The script starts: a new process, its keyword table as defined, the
\* session and the input of the turn, the two retrieve_context calls.
StartTurn(session_id, user_input) ==
    /\ pc = "idle"
    /\ nOps < MaxTurns
    /\ \E context \in RetrieveResults(session_id, DefaultLimit),
          new_interactions \in RetrieveResults(session_id, DefaultLimit) :
          wf' = [NoTurn EXCEPT !.session_id = session_id,
                               !.user_input = user_input,
                               !.context = context,
                               !.interactions_before = interactions,
                               !.outcome = "running"]
    /\ category_keywords' = InitialCategoryKeywords
    /\ nOps' = nOps + 1
    /\ pc' = "extract"
    /\ UNCHANGED <<interactions, key_points, now, call, query>>

\* extract_key_points_by_category returns and every category's points are
\* merged into the key-point store.
ExtractAndUpdate(completion) ==
    /\ pc = "extract"
    /\ key_points' = UpdateEach(key_points, wf.session_id,
                                ExtractKeyPointsByCategory(category_keywords, completion), 1)
    /\ pc' = "classify"
    /\ UNCHANGED <<category_keywords, interactions, now, call, query, nOps, wf>>

\* The extraction's call of the model raises: the script ends there.
ExtractRaises ==
    /\ pc = "extract"
    /\ wf' = [wf EXCEPT !.outcome = "extract_raised"]
    /\ pc' = "idle"
    /\ UNCHANGED <<category_keywords, interactions, key_points, now, call, query, nOps>>

\* The categories are determined, the context is assembled and its size is
\* checked; too large, the turn ends with the message.
ClassifyAndCheck ==
    /\ pc = "classify"
    /\ LET out == DetermineRelevantCategories(category_keywords, wf.user_input)
       IN  /\ category_keywords' = out.table
           /\ \E order \in IterationOrders(out.table, out.relevant_categories) :
                LET combined_context ==
                        CombinedContext(KeyPointsText(key_points, wf.session_id, order),
                                        wf.context)
                    combined_words == WordCount(combined_context)
                    input_words == WordCount(Text(wf.user_input))
                    fits == WithinBudget(combined_words, input_words)
                IN  /\ wf' = [wf EXCEPT
                               !.relevant_categories =
                                   {order[i] : i \in 1..Len(order)},
                               !.checked = TRUE,
                               !.combined_words = combined_words,
                               !.input_words = input_words,
                               !.outcome = IF fits THEN "running" ELSE "rejected"]
                    /\ pc' = IF fits THEN "generate" ELSE "idle"
    /\ UNCHANGED <<interactions, key_points, now, call, query, nOps>>

\* generate_response(prompt) returns the completion's trimmed text.
GenerateResponse(completion) ==
    /\ pc = "generate"
    /\ wf' = [wf EXCEPT !.response = Strip(completion),
                        !.generate_calls = @ + 1]
    /\ pc' = "store"
    /\ UNCHANGED <<category_keywords, interactions, key_points, now, call, query, nOps>>

\* generate_response(prompt) raises: the script ends there.
GenerateRaises ==
    /\ pc = "generate"
    /\ wf' = [wf EXCEPT !.generate_calls = @ + 1, !.outcome = "generate_raised"]
    /\ pc' = "idle"
    /\ UNCHANGED <<category_keywords, interactions, key_points, now, call, query, nOps>>

\* store_interaction(session_id, user_input, response) ends the turn.
StoreTurn ==
    /\ pc = "store"
    /\ interactions' = InteractionsAfterStore(wf.session_id, Text(wf.user_input), wf.response)
    /\ wf' = [wf EXCEPT !.store_calls = @ + 1, !.outcome = "stored"]
    /\ pc' = "idle"
    /\ UNCHANGED <<category_keywords, key_points, now, call, query, nOps>>

-----------------------------------------------------------------------------
(* Specifications.                                                         *)

InitCommon ==
    /\ category_keywords = InitialCategoryKeywords
    /\ interactions = <<>>
    /\ key_points = {}
    /\ now = 0
    /\ call = [op |-> "none"]
    /\ query = <<>>
    /\ nOps = 0
    /\ pc = "idle"
    /\ wf = NoTurn

\* The key-point store under any sequence of store and update operations.
NextKeyPoints ==
    \/ \E s \in Sessions, c \in KPCategories, p \in Points : store_key_points(s, c, p)
    \/ \E s \in Sessions, c \in KPCategories, p \in Points : update_key_points(s, c, p)

SpecKeyPoints == InitCommon /\ [][NextKeyPoints]_vars

\* The interaction store under any sequence of store and retrieve operations.
NextInteractions ==
    \/ \E s \in Sessions, u \in UserInputs, r \in ModelResponses : store_interaction(s, u, r)
    \/ \E s \in Sessions, l \in Limits : retrieve_context(s, l)
    \/ Tick

SpecInteractions == InitCommon /\ [][NextInteractions]_vars

\* One process calling the classifier on queries of its choice.
NextClassifier ==
    \/ \E item \in EntityQueryItems : EnterItem(item)
    \/ determine_relevant_categories

SpecClassifier == InitCommon /\ [][NextClassifier]_vars

\* The same on queries made of keywords.
NextKeywordQueries ==
    \/ \E item \in KeywordQueryItems : EnterItem(item)
    \/ determine_relevant_categories

SpecKeywordQueries == InitCommon /\ [][NextKeywordQueries]_vars

\* The store as earlier turns left it: session s1 holds a long summary for
\* one category, session s2 holds nothing.
InitTurns ==
    /\ category_keywords = InitialCategoryKeywords
    /\ interactions = <<>>
    /\ key_points = {[session_id |-> "s1", category |-> "testing", summary |-> LongSummary]}
    /\ now = 0
    /\ call = [op |-> "none"]
    /\ query = <<>>
    /\ nOps = 0
    /\ pc = "idle"
    /\ wf = NoTurn

\* Turns of the workflow, one after the other.
NextTurns ==
    \/ \E s \in Sessions, u \in TurnInputs : StartTurn(s, u)
    \/ \E completion \in ExtractionCompletions : ExtractAndUpdate(completion)
    \/ ExtractRaises
    \/ ClassifyAndCheck
    \/ \E completion \in ResponseCompletions : GenerateResponse(completion)
    \/ GenerateRaises
    \/ StoreTurn

SpecTurns == InitTurns /\ [][NextTurns]_vars

-----------------------------------------------------------------------------
(* Claims about the classifier and the entity extractor.                   *)

IsDetermine == call.op = "determine_relevant_categories"

DynamicKeywords(table) == Keywords(table, "dynamic")

Count(xs, a) == Cardinality({i \in 1..Len(xs) : xs[i] = a})

\* The keyword, as whole words and in any case, is part of the query's text.
QueryContains(chunked, keyword) ==
    IsSubstring(" " \o Lower(keyword) \o " ", " " \o Lower(Text(chunked)) \o " ")

\* C1: the set returned for a query holds every category of the keyword table
\* one of whose keywords, multi-word ones included, the query contains in any
\* case.
C1_KeywordInQueryMarksCategory ==
    IsDetermine =>
        \A i \in 1..Len(category_keywords) :
            (\E k \in 1..Len(category_keywords[i].keywords) :
                QueryContains(call.query, category_keywords[i].keywords[k]))
            => category_keywords[i].category \in call.result

RECURSIVE EntityRuns(_, _, _)
\* The phrase of every maximal run of consecutive entity chunks, in order,
\* a run that ends the text included.
EntityRuns(chunked, i, run) ==
    LET phrase == IF run # <<>> THEN <<Join(" ", run)>> ELSE <<>>
    IN  IF i > Len(chunked) THEN phrase
        ELSE IF chunked[i].tree
        THEN EntityRuns(chunked, i + 1, Append(run, Join(" ", chunked[i].leaves)))
        ELSE phrase \o EntityRuns(chunked, i + 1, <<>>)

RECURSIVE FirstOccurrences(_)
\* A sequence without the repetitions of its earlier elements.
FirstOccurrences(xs) ==
    IF xs = <<>> THEN <<>>
    ELSE LET rest == FirstOccurrences(SubSeq(xs, 1, Len(xs) - 1))
         IN  IF InSeq(xs[Len(xs)], rest) THEN rest ELSE Append(rest, xs[Len(xs)])

\* C8: get_continuous_chunks returns, in order of first occurrence and without
\* duplicates, exactly the phrases of the maximal runs of consecutive entity
\* chunks: a run at the end of the text is included, and a run repeating an
\* earlier phrase is neither added again nor merged into the next run.
C8_ChunksAreTheDistinctRuns ==
    IsDetermine => call.entities = FirstOccurrences(EntityRuns(call.query, 1, <<>>))

\* The table as it is when the k-th entity of the call is examined.
TableAtEntity(k) == EntityLoop(SubSeq(call.entities, 1, k - 1), 1, call.table, {}).table

Unmatched(table, entity) == MatchingCategories(table, entity) = {}

\* An entity already under 'dynamic' when the call began puts 'dynamic' in the
\* result and is not appended again.
KnownEntityIsNotRepeated ==
    \A k \in 1..Len(call.entities) :
        InSeq(call.entities[k], DynamicKeywords(call.table)) =>
            /\ "dynamic" \in call.result
            /\ Count(DynamicKeywords(category_keywords), call.entities[k])
                 = Count(DynamicKeywords(call.table), call.entities[k])

NoDynamicDuplicates ==
    \A e \in {DynamicKeywords(category_keywords)[i] :
                i \in 1..Len(DynamicKeywords(category_keywords))} :
        Count(DynamicKeywords(category_keywords), e) = 1

\* C6 as stated: every extracted entity that matches no keyword of any category
\* of the table the call starts with is appended to 'dynamic', which is created
\* if absent and returned; a later call with the same entity returns 'dynamic'
\* without appending it again; 'dynamic' never holds an entity twice.
C6_UnmatchedAtCallStartIsAppended ==
    /\ NoDynamicDuplicates
    /\ IsDetermine =>
        /\ KnownEntityIsNotRepeated
        /\ \A k \in 1..Len(call.entities) :
              Unmatched(call.table, call.entities[k]) =>
                  /\ InSeq(call.entities[k], DynamicKeywords(category_keywords))
                  /\ "dynamic" \in call.result

\* C6, amended: every extracted entity that matches no keyword of any category
\* at the moment it is examined (the entities before it in the same call
\* already handled) is appended to 'dynamic', which is created if absent and
\* returned; a later call with the same entity returns 'dynamic' without
\* appending it again; 'dynamic' never holds an entity twice.
C6_UnmatchedWhenExaminedIsAppended ==
    /\ NoDynamicDuplicates
    /\ IsDetermine =>
        /\ KnownEntityIsNotRepeated
        /\ \A k \in 1..Len(call.entities) :
              Unmatched(TableAtEntity(k), call.entities[k]) =>
                  /\ "dynamic" \in Categories(category_keywords)
                  /\ InSeq(call.entities[k], DynamicKeywords(category_keywords))
                  /\ ~InSeq(call.entities[k], DynamicKeywords(TableAtEntity(k)))
                  /\ "dynamic" \in call.result

\* A later call names an entity an earlier call put under 'dynamic', and the
\* call before it appended one.
C6_Witness ==
    /\ IsDetermine
    /\ \E k \in 1..Len(call.entities) :
          /\ InSeq(call.entities[k], DynamicKeywords(call.table))
          /\ Unmatched([i \in 1..Len(InitialCategoryKeywords) |-> call.table[i]],
                       call.entities[k])

\* C10: the eight initial categories keep their keyword lists and their
\* places, the only category ever added is 'dynamic', category names are
\* unique, a call removes no category and no 'dynamic' keyword, and every
\* category a call returns is a key of the table.
C10_TableGrowsOnlyUnderDynamic ==
    /\ Len(category_keywords) >= Len(InitialCategoryKeywords)
    /\ SubSeq(category_keywords, 1, Len(InitialCategoryKeywords)) = InitialCategoryKeywords
    /\ Categories(category_keywords) \subseteq Categories(InitialCategoryKeywords) \cup {"dynamic"}
    /\ \A i, j \in 1..Len(category_keywords) :
          i # j => category_keywords[i].category # category_keywords[j].category
    /\ IsDetermine =>
        /\ call.result \subseteq Categories(category_keywords)
        /\ Categories(call.table) \subseteq Categories(category_keywords)
        /\ Len(DynamicKeywords(call.table)) <= Len(DynamicKeywords(category_keywords))
        /\ SubSeq(DynamicKeywords(category_keywords), 1, Len(DynamicKeywords(call.table)))
             = DynamicKeywords(call.table)

\* A call appends to a 'dynamic' category that an earlier call created.
C10_Witness ==
    /\ IsDetermine
    /\ DynamicKeywords(call.table) # <<>>
    /\ Len(DynamicKeywords(category_keywords)) > Len(DynamicKeywords(call.table))

-----------------------------------------------------------------------------
(* Claims about the key-point store.                                       *)

\* C4: update_key_points(session, category, points) followed by
\* get_key_points(session, category) returns the prior summary, one line break
\* and points when the prior summary is not empty, and points alone when there
\* is no prior summary or it is empty.
C4_UpdateThenGet ==
    call.op = "update_key_points" =>
        get_key_points(call.session_id, call.category)
          = (IF call.prior # "" THEN call.prior \o "\n" \o call.new_points
             ELSE call.new_points)

\* An update with points onto a summary that is not empty.
C4_Witness ==
    /\ call.op = "update_key_points"
    /\ call.prior # ""
    /\ call.new_points # ""

\* C5: after store_key_points(session, category, s) get_key_points(session,
\* category) returns exactly s, whatever was stored before, and the table never
\* holds two rows for one (session, category) pair.
C5_StoreOverwrites ==
    /\ \A r1, r2 \in key_points :
          (r1.session_id = r2.session_id /\ r1.category = r2.category) => r1 = r2
    /\ call.op = "store_key_points" =>
          get_key_points(call.session_id, call.category) = call.summary

\* A second store onto a pair that holds another summary.
C5_Witness ==
    /\ call.op = "store_key_points"
    /\ call.prior # ""
    /\ call.prior # call.summary

\* C9: update_key_points with empty new_points leaves a stored summary as it
\* was.
C9_EmptyUpdateKeepsSummary ==
    (call.op = "update_key_points" /\ call.new_points = "") =>
        get_key_points(call.session_id, call.category) = call.prior

-----------------------------------------------------------------------------
(* Claims about the interaction store.                                     *)

\* The session's rows from the last stored to the first stored.
NewestFirst(session_id) ==
    LET rows == SessionRows(session_id)
    IN  [j \in 1..Cardinality(rows) |->
            CHOOSE i \in rows : Cardinality({m \in rows : m > i}) = j - 1]

\* C7: retrieve_context(session, limit) returns min(limit, rows of the
\* session) pairs, all of that session: the most recently stored ones, a
\* later-stored one never after an earlier-stored one, also among rows stored
\* at one timestamp.
C7_RetrieveNewestFirst ==
    call.op = "retrieve_context" =>
        LET newest == NewestFirst(call.session_id)
        IN  call.result =
              [j \in 1..Min(call.limit, Len(newest)) |->
                  <<interactions[newest[j]].user_input,
                    interactions[newest[j]].model_response>>]

-----------------------------------------------------------------------------
(* Claims about the workflow.                                              *)

TurnWords == wf.combined_words + wf.input_words

\* The row the turn stores is the one new row of the table.
OneNewRow ==
    /\ Len(interactions) = Len(wf.interactions_before) + 1
    /\ SubSeq(interactions, 1, Len(wf.interactions_before)) = wf.interactions_before
    /\ interactions[Len(interactions)].session_id = wf.session_id
    /\ interactions[Len(interactions)].user_input = Text(wf.user_input)
    /\ interactions[Len(interactions)].model_response = wf.response

\* C2: a turn whose combined context and user input together count more than
\* 8192 words is rejected: generate_response is not invoked, store_interaction
\* is not called and the interactions table holds the rows it held before.
C2_OverBudgetTurnIsRejected ==
    (wf.checked /\ TurnWords > TokenLimit) =>
        /\ wf.outcome = "rejected"
        /\ wf.generate_calls = 0
        /\ wf.store_calls = 0
        /\ interactions = wf.interactions_before

\* A turn is rejected in a session that holds an earlier turn's row.
C2_Witness ==
    /\ wf.outcome = "rejected"
    /\ TurnWords > TokenLimit
    /\ \E i \in 1..Len(interactions) : interactions[i].session_id = wf.session_id

\* C3 as stated: a turn whose combined context counts at most 8192 words
\* invokes the generator exactly once and adds exactly one row, holding the
\* turn's session, user input and response.
C3_ContextWithinLimitIsAnswered ==
    (pc = "idle" /\ wf.checked /\ wf.combined_words <= TokenLimit) =>
        /\ wf.generate_calls = 1
        /\ OneNewRow

\* C3, amended: a turn whose combined context and user input together count at
\* most 8192 words invokes the generator exactly once; when the generator
\* returns, the turn adds exactly one row, holding the turn's session, user
\* input and response; when it raises, the turn adds none.
C3_TurnWithinBudgetIsAnswered ==
    (wf.checked /\ TurnWords <= TokenLimit) =>
        /\ pc \in {"generate", "store", "idle"}
        /\ pc = "generate" => (wf.generate_calls = 0 /\ interactions = wf.interactions_before)
        /\ pc = "store" => (wf.generate_calls = 1 /\ interactions = wf.interactions_before)
        /\ pc = "idle" =>
              /\ wf.generate_calls = 1
              /\ wf.outcome \in {"stored", "generate_raised"}
              /\ wf.outcome = "stored" => (wf.store_calls = 1 /\ OneNewRow)
              /\ wf.outcome = "generate_raised" =>
                    (wf.store_calls = 0 /\ interactions = wf.interactions_before)

\* A turn of exactly 8192 words is answered and stored.
C3_Witness ==
    /\ pc = "idle"
    /\ wf.outcome = "stored"
    /\ TurnWords = TokenLimit

=============================================================================
